---- MODULE Spec2Model ----
(***************************************************************************)
(* Keyword-driven UI test harness: the keyword interpreters and the flow   *)
(* executors of the three framework variants of the repository             *)
(*   "framework"  src/framework                   (Playwright)             *)
(*   "selenium"   src/selenium_framework          (Selenium, PASS/FAIL)    *)
(*   "behave"     src/selenium_behave_framework   (KeywordExecutor)        *)
(* Strings are sequences of one-character strings, so that upper-casing,   *)
(* trimming and substring containment are computed, not assumed.           *)
(***************************************************************************)
EXTENDS Integers, Sequences, FiniteSets, TLC

VARIABLES
    variant,      \* which of the three frameworks runs
    cfg,          \* the screenshot configuration flags
    workbook,     \* the data source: sheet name -> grid
    source,       \* the state of the data source: readable, with a master sheet, with an Execute column
    master_sheet, \* the rows of the master sheet: Execute flag and ScreenFlow
    master,       \* the flows of the test cases selected for execution
    screen_data,  \* framework ExcelReader.screen_data, the per-run screen cache
    pc,           \* position of the run: new / idle / steps / finish / done / aborted
    exit,         \* how the step loop of the current test case was left
    idx,          \* number of test cases handed to the executor so far
    screens,      \* screens of the current flow not yet entered
    screen_name,  \* the screen being executed
    steps,        \* steps of the current screen not yet invoked
    step_no,      \* number of the next step within the current screen
    result,       \* outcome of the current test case while it is built
    res,          \* the browser session resources opened for the current test case
    refs,         \* the object fields that hold a session resource
    shots,        \* diagnostic captures requested in the current test case
    captures,     \* what each of these captures met and returned
    invoked,      \* keyword invocations of the current test case
    results,      \* the result collection
    returns,      \* what the per-test-case executor returned, per test case
    counters,     \* selenium TestExecutor.passed_tests / failed_tests
    summary,      \* the run summary computed at the end of the run
    run_returned, \* what the run returned to its caller
    session,      \* what the session start of the current test case did
    kwInput,      \* input of a stand-alone interpreter call
    call          \* the last interpreter call and its outcome

\* ------------------------------------------------------------------------
\* Strings
\* ------------------------------------------------------------------------
LowerLetters == <<"a","b","c","d","e","f","g","h","i","j","k","l","m",
                  "n","o","p","q","r","s","t","u","v","w","x","y","z">>
UpperLetters == <<"A","B","C","D","E","F","G","H","I","J","K","L","M",
                  "N","O","P","Q","R","S","T","U","V","W","X","Y","Z">>
Digits == {"0","1","2","3","4","5","6","7","8","9"}

UpperChar(c) ==
    IF \E i \in 1..26 : LowerLetters[i] = c
    THEN UpperLetters[CHOOSE i \in 1..26 : LowerLetters[i] = c]
    ELSE c

LowerChar(c) ==
    IF \E i \in 1..26 : UpperLetters[i] = c
    THEN LowerLetters[CHOOSE i \in 1..26 : UpperLetters[i] = c]
    ELSE c

\* str.upper()
Upper(s) == [i \in 1..Len(s) |-> UpperChar(s[i])]

\* str.lower()
Lower(s) == [i \in 1..Len(s) |-> LowerChar(s[i])]

\* str.strip(): drop the leading and the trailing blanks
Strip(s) ==
    LET nb == {i \in 1..Len(s) : s[i] # " "}
    IN  IF nb = {} THEN <<>>
        ELSE LET lo == CHOOSE i \in nb : \A j \in nb : i <= j
                 hi == CHOOSE i \in nb : \A j \in nb : j <= i
             IN  SubSeq(s, lo, hi)

\* Python's "sub in s" on strings
Contains(sub, s) ==
    \E i \in 0..(Len(s) - Len(sub)) :
        \A j \in 1..Len(sub) : s[i + j] = sub[j]

\* float(s) / int(s) succeed: a non-empty run of digits
IsNumeric(s) == s # <<>> /\ \A i \in 1..Len(s) : s[i] \in Digits

\* ------------------------------------------------------------------------
\* Keyword names
\* ------------------------------------------------------------------------
KW_NAVIGATE == <<"N", "A", "V", "I", "G", "A", "T", "E">>
KW_CLICK == <<"C", "L", "I", "C", "K">>
KW_ENTER == <<"E", "N", "T", "E", "R">>
KW_VERIFY_TEXT == <<"V", "E", "R", "I", "F", "Y", "_", "T", "E", "X", "T">>
KW_VERIFY_TITLE == <<"V", "E", "R", "I", "F", "Y", "_", "T", "I", "T", "L", "E">>
KW_VERIFY_URL == <<"V", "E", "R", "I", "F", "Y", "_", "U", "R", "L">>
KW_WAIT == <<"W", "A", "I", "T">>
KW_WAIT_FOR_ELEMENT == <<"W", "A", "I", "T", "_", "F", "O", "R", "_", "E", "L", "E", "M", "E", "N", "T">>
KW_REFRESH == <<"R", "E", "F", "R", "E", "S", "H">>

\* The part of each variant's registry that the model carries (all three
\* registries hold these nine names; the other entries dispatch the same way).
keyword_map == {KW_NAVIGATE, KW_CLICK, KW_ENTER, KW_VERIFY_TEXT, KW_VERIFY_TITLE,
                KW_VERIFY_URL, KW_WAIT, KW_WAIT_FOR_ELEMENT, KW_REFRESH}

VerifyKeywords == {KW_VERIFY_TEXT, KW_VERIFY_TITLE, KW_VERIFY_URL}

\* Keyword cells as a tester may type them
RAW_click == <<"c", "l", "i", "c", "k">>
RAW_Click_padded == <<" ", "C", "l", "i", "c", "k", " ">>
RAW_verify_text == <<"v", "e", "r", "i", "f", "y", "_", "t", "e", "x", "t">>
RAW_Wait_padded == <<" ", "w", "a", "i", "t">>
RAW_FOO == <<"F", "O", "O">>
RAW_foo == <<"f", "o", "o">>
RAW_Foo_padded == <<" ", "F", "o", "o", " ">>
RAW_blank == <<" ">>

RawKeywords == keyword_map \cup
    {RAW_click, RAW_Click_padded, RAW_verify_text, RAW_Wait_padded,
     RAW_FOO, RAW_foo, RAW_Foo_padded, RAW_blank}

Variants == {"framework", "selenium", "behave"}

\* ------------------------------------------------------------------------
\* The page as one keyword invocation finds it
\* ------------------------------------------------------------------------
Faults == {"timeout", "no_such_element", "stale_reference", "not_interactable"}

T_Welcome == <<"W", "e", "l", "c", "o", "m", "e", ",", " ", "A">>
T_Wel == <<"W", "e", "l">>
T_wel == <<"w", "e", "l">>
T_Bye == <<"B", "y", "e">>
T_2 == <<"2">>

\* text / title / URL read from the page
Actuals == {T_Welcome, T_wel, <<>>}

\* value cells
Values == {<<>>, T_Wel, T_wel, T_Bye, T_2}

\* locator cells (framework and selenium: one string; behave: LocatorValue)
L_btn == <<"/", "/", "b">>
Locators == {<<>>, L_btn, T_Wel, T_2}

\* behave's Locator (type) cell
LocatorTypes == {<<>>, <<"i", "d">>}

Envs == [fault : Faults, actual : {<<>>}] \cup [fault : {"none"}, actual : Actuals]

\* what the page does during one step of a flow
StepEnvs == {[fault |-> "timeout", actual |-> <<>>],
             [fault |-> "none", actual |-> T_Welcome],
             [fault |-> "none", actual |-> T_wel]}

\* ------------------------------------------------------------------------
\* Outcomes of a call
\* ------------------------------------------------------------------------
\* a (success, message) pair returned / an exception raised to the caller
Ret(s, m) == [kind |-> "return", success |-> s, message |-> m, result |-> "pair"]
Raise(m) == [kind |-> "raise", success |-> FALSE, message |-> m, result |-> "raised"]

\* ------------------------------------------------------------------------
\* framework: KeywordEngine handlers (each catches its own faults)
\* ------------------------------------------------------------------------
\* the element / page handlers: try: <automation call> except: return False
fw_action(env, okmsg, failmsg) ==
    IF env.fault # "none" THEN Ret(FALSE, <<failmsg, env.fault>>)
    ELSE Ret(TRUE, <<okmsg>>)

\* verify_text(locator, expected_text), verify_title(expected_title, value),
\* verify_url(expected_url, value): "expected in actual"
fw_verify(expected, env, what) ==
    IF env.fault # "none" THEN Ret(FALSE, <<"Failed to verify ", what, env.fault>>)
    ELSE IF Contains(expected, env.actual)
         THEN Ret(TRUE, <<what, " verification passed: '">> \o expected)
         ELSE Ret(FALSE, <<what, " verification failed: Expected '">> \o expected)

\* wait(seconds, value): float(seconds) if seconds else 1
fw_wait(seconds) ==
    IF seconds = <<>> THEN Ret(TRUE, <<"Waited for ", "1", " seconds">>)
    ELSE IF IsNumeric(seconds) THEN Ret(TRUE, <<"Waited for ">> \o seconds)
    ELSE Ret(FALSE, <<"Failed to wait: ", "could not convert string to float">>)

\* wait_for_element(locator, value): int(value) * 1000 if value else 10000
fw_wait_for_element(locator, value, env) ==
    IF value # <<>> /\ ~IsNumeric(value)
    THEN Ret(FALSE, <<"Element not found: ", "invalid literal for int()">>)
    ELSE IF env.fault # "none" THEN Ret(FALSE, <<"Element not found: ", env.fault>>)
    ELSE Ret(TRUE, <<"Element found: ">> \o locator)

\* keyword_map[keyword](locator, value): every handler gets the locator as
\* its first and the value as its second positional argument
fw_handler(kw, locator, value, env) ==
    CASE kw = KW_NAVIGATE -> fw_action(env, "Successfully navigated", "Failed to navigate: ")
      [] kw = KW_CLICK -> fw_action(env, "Clicked on element", "Failed to click: ")
      [] kw = KW_ENTER -> fw_action(env, "Entered text", "Failed to enter text: ")
      [] kw = KW_REFRESH -> fw_action(env, "Page refreshed", "Failed to refresh: ")
      [] kw = KW_VERIFY_TEXT -> fw_verify(value, env, "Text")
      [] kw = KW_VERIFY_TITLE -> fw_verify(locator, env, "Title")
      [] kw = KW_VERIFY_URL -> fw_verify(locator, env, "URL")
      [] kw = KW_WAIT -> fw_wait(locator)
      [] kw = KW_WAIT_FOR_ELEMENT -> fw_wait_for_element(locator, value, env)

\* the failure boundary of execute_keyword: a raised fault becomes (False, msg)
fw_boundary(kw, out) ==
    IF out.kind = "raise"
    THEN Ret(FALSE, <<"Error executing keyword '">> \o kw \o <<"': ">> \o out.message)
    ELSE out

\* a dispatch that treats a name it does not know as a step with nothing to do
fw_execute_keyword_lenient(keyword, locator, value, env) ==
    LET kw == Strip(Upper(keyword))
    IN  IF kw \in keyword_map
        THEN fw_boundary(kw, fw_handler(kw, locator, value, env))
        ELSE Ret(TRUE, <<"Keyword '">> \o kw \o <<"' skipped">>)

\* KeywordEngine.execute_keyword(keyword, locator, value)
fw_execute_keyword(keyword, locator, value, env) ==
    LET kw == Strip(Upper(keyword))
    IN  IF kw \in keyword_map
        THEN fw_boundary(kw, fw_handler(kw, locator, value, env))
        ELSE Ret(FALSE, <<"Keyword '">> \o kw \o <<"' is not supported">>)

\* ------------------------------------------------------------------------
\* selenium_framework: KeywordEngine handlers
\* ------------------------------------------------------------------------
\* handlers that need an element: "if not locator: return False"
sel_element(locator, env, okmsg, failmsg) ==
    IF locator = <<>> THEN Ret(FALSE, <<"No locator provided">>)
    ELSE IF env.fault # "none" THEN Ret(FALSE, <<failmsg, env.fault>>)
    ELSE Ret(TRUE, <<okmsg>>)

\* _navigate: url = value if value else locator
sel_navigate(locator, value, env) ==
    LET url == IF value # <<>> THEN value ELSE locator
    IN  IF url = <<>> THEN Ret(FALSE, <<"No URL provided">>)
        ELSE IF env.fault # "none" THEN Ret(FALSE, <<"Failed to navigate to: ">> \o url)
        ELSE Ret(TRUE, <<"Navigated to: ">> \o url)

\* _refresh: driver_manager.refresh_page() returns False on a fault
sel_refresh(env) ==
    IF env.fault # "none" THEN Ret(FALSE, <<"Failed to refresh page">>)
    ELSE Ret(TRUE, <<"Page refreshed">>)

\* _verify_text: value.lower() in element.text.lower()
sel_verify_text(locator, value, env) ==
    IF locator = <<>> THEN Ret(FALSE, <<"No locator provided">>)
    ELSE IF env.fault # "none" THEN Ret(FALSE, <<"Element not found: ">> \o locator)
    ELSE IF Contains(Lower(value), Lower(env.actual))
         THEN Ret(TRUE, <<"Text verified: '">> \o value)
         ELSE Ret(FALSE, <<"Text mismatch: Expected '">> \o value)

\* get_page_title() / get_current_url(): "" when the driver call faults
sel_page_read(env) == IF env.fault # "none" THEN <<>> ELSE env.actual

\* _verify_title: expected_title.lower() in actual_title.lower()
sel_verify_title(locator, value, env) ==
    LET expected == IF value # <<>> THEN value ELSE locator
    IN  IF Contains(Lower(expected), Lower(sel_page_read(env)))
        THEN Ret(TRUE, <<"Title verified: '">> \o expected)
        ELSE Ret(FALSE, <<"Title mismatch: Expected '">> \o expected)

\* _verify_url: expected_url in actual_url
sel_verify_url(locator, value, env) ==
    LET expected == IF value # <<>> THEN value ELSE locator
    IN  IF Contains(expected, sel_page_read(env))
        THEN Ret(TRUE, <<"URL verified: '">> \o expected)
        ELSE Ret(FALSE, <<"URL mismatch: Expected '">> \o expected)

\* _wait: float(value) if value else 1, inside the handler's own try
sel_wait(value) ==
    IF value = <<>> THEN Ret(TRUE, <<"Waited for ", "1", " seconds">>)
    ELSE IF IsNumeric(value) THEN Ret(TRUE, <<"Waited for ">> \o value)
    ELSE Ret(FALSE, <<"Failed to wait: ", "could not convert string to float">>)

\* _wait_for_element: int(value) is outside any try of the handler
sel_wait_for_element(locator, value, env) ==
    IF locator = <<>> THEN Ret(FALSE, <<"No locator provided">>)
    ELSE IF value # <<>> /\ ~IsNumeric(value) THEN Raise(<<"invalid literal for int()">>)
    ELSE IF env.fault # "none" THEN Ret(FALSE, <<"Element not found within timeout: ">> \o locator)
    ELSE Ret(TRUE, <<"Element found: ">> \o locator)

sel_handler(kw, locator, value, env) ==
    CASE kw = KW_NAVIGATE -> sel_navigate(locator, value, env)
      [] kw = KW_CLICK -> sel_element(locator, env, "Clicked element", "Failed to click: ")
      [] kw = KW_ENTER -> sel_element(locator, env, "Entered text", "Failed to enter text: ")
      [] kw = KW_REFRESH -> sel_refresh(env)
      [] kw = KW_VERIFY_TEXT -> sel_verify_text(locator, value, env)
      [] kw = KW_VERIFY_TITLE -> sel_verify_title(locator, value, env)
      [] kw = KW_VERIFY_URL -> sel_verify_url(locator, value, env)
      [] kw = KW_WAIT -> sel_wait(value)
      [] kw = KW_WAIT_FOR_ELEMENT -> sel_wait_for_element(locator, value, env)

\* the failure boundary of execute_keyword
sel_boundary(kw, out) ==
    IF out.kind = "raise"
    THEN Ret(FALSE, <<"Error executing keyword '">> \o kw \o <<"': ">> \o out.message)
    ELSE out

\* KeywordEngine.execute_keyword(keyword, locator, value)
\* a lookup with the name as it was typed
sel_execute_keyword_exact(keyword, locator, value, env) ==
    IF keyword \notin keyword_map
    THEN Ret(FALSE, <<"Unknown keyword: ">> \o keyword)
    ELSE sel_boundary(keyword, sel_handler(keyword, locator, value, env))

sel_execute_keyword(keyword, locator, value, env) ==
    LET kw == Upper(Strip(keyword))
    IN  IF kw \notin keyword_map
        THEN Ret(FALSE, <<"Unknown keyword: ">> \o kw)
        ELSE sel_boundary(kw, sel_handler(kw, locator, value, env))

\* ------------------------------------------------------------------------
\* selenium_behave_framework: KeywordEngine (faults are raised to the caller)
\* ------------------------------------------------------------------------
\* a keyword method that returns normally; result is the returned value
BhReturn(returned) == [kind |-> "return", success |-> TRUE, message |-> <<>>, result |-> returned]

\* how execute() calls the method: func(locator, data), func(locator),
\* func(data) or func()
bh_shape(locator_type, locator_value, data) ==
    LET locator == locator_type # <<>> /\ locator_value # <<>>
    IN  IF locator /\ data # <<>> THEN "locator_data"
        ELSE IF locator THEN "locator"
        ELSE IF data # <<>> THEN "data"
        ELSE "none"

\* a call whose positional arguments do not fit the method's signature
bh_TypeError == Raise(<<"TypeError">>)

\* a method handed a string where a locator tuple is expected, or a tuple
\* where a string is expected: the driver call or the conversion raises
bh_BadArgument == Raise(<<"invalid argument">>)

bh_fault(env, returned) ==
    IF env.fault # "none" THEN Raise(<<env.fault>>) ELSE BhReturn(returned)

\* navigate(url)
bh_navigate(shape, env) ==
    CASE shape = "data" -> bh_fault(env, "None")
      [] shape = "locator" -> bh_BadArgument
      [] OTHER -> bh_TypeError

\* click(locator)
bh_click(shape, env) ==
    CASE shape = "locator" -> bh_fault(env, "None")
      [] shape = "data" -> bh_BadArgument
      [] OTHER -> bh_TypeError

\* enter_text(locator, text)
bh_enter_text(shape, env) ==
    IF shape = "locator_data" THEN bh_fault(env, "None") ELSE bh_TypeError

\* refresh()
bh_refresh(shape, env) ==
    IF shape = "none" THEN bh_fault(env, "None") ELSE bh_TypeError

\* verify_text(locator, expected_text): returns expected_text in actual_text
bh_verify_text(shape, data, env) ==
    IF shape = "locator_data"
    THEN bh_fault(env, IF Contains(data, env.actual) THEN "True" ELSE "False")
    ELSE bh_TypeError

\* verify_title(expected_title) / verify_url(expected_url):
\* returns expected in actual
bh_verify_page(shape, data, env) ==
    CASE shape = "data" -> bh_fault(env, IF Contains(data, env.actual) THEN "True" ELSE "False")
      [] shape = "locator" -> bh_BadArgument
      [] OTHER -> bh_TypeError

\* wait(seconds): time.sleep(float(seconds))
bh_wait(shape, data) ==
    CASE shape = "data" -> IF IsNumeric(data) THEN BhReturn("None")
                           ELSE Raise(<<"could not convert string to float">>)
      [] shape = "locator" -> bh_BadArgument
      [] OTHER -> bh_TypeError

\* wait_for_element(locator, timeout=None): int(timeout) if timeout else self.timeout
bh_wait_for_element(shape, data, env) ==
    CASE shape = "locator" -> bh_fault(env, "element")
      [] shape = "locator_data" -> IF IsNumeric(data) THEN bh_fault(env, "element")
                                   ELSE Raise(<<"invalid literal for int()">>)
      [] shape = "data" -> bh_BadArgument
      [] OTHER -> bh_TypeError

bh_handler(kw, shape, data, env) ==
    CASE kw = KW_NAVIGATE -> bh_navigate(shape, env)
      [] kw = KW_CLICK -> bh_click(shape, env)
      [] kw = KW_ENTER -> bh_enter_text(shape, env)
      [] kw = KW_REFRESH -> bh_refresh(shape, env)
      [] kw = KW_VERIFY_TEXT -> bh_verify_text(shape, data, env)
      [] kw = KW_VERIFY_TITLE -> bh_verify_page(shape, data, env)
      [] kw = KW_VERIFY_URL -> bh_verify_page(shape, data, env)
      [] kw = KW_WAIT -> bh_wait(shape, data)
      [] kw = KW_WAIT_FOR_ELEMENT -> bh_wait_for_element(shape, data, env)

\* KeywordEngine.execute(keyword, locator_type, locator_value, data):
\* an unknown keyword raises ValueError, a failing method is logged and re-raised
bh_execute(keyword, locator_type, locator_value, data, env) ==
    LET kw == Strip(Upper(keyword))
    IN  IF kw \notin keyword_map
        THEN Raise(<<"Unknown keyword: ">> \o kw)
        ELSE bh_handler(kw, bh_shape(locator_type, locator_value, data), data, env)

\* ------------------------------------------------------------------------
\* One interpreter call, as the flow executor of each variant makes it
\* ------------------------------------------------------------------------
\* the keyword string the executor hands to the interpreter:
\*   framework passes the cell as read; selenium's parse_test_steps has
\*   stripped and upper-cased it; KeywordExecutor upper-cases it
PassedKeyword(v, keyword) ==
    CASE v = "framework" -> keyword
      [] v = "selenium" -> Upper(Strip(keyword))
      [] v = "behave" -> Upper(keyword)

\* the interpreter's answer to (keyword, locator type, locator, value)
Execute(v, keyword, ltype, locator, value, env) ==
    CASE v = "framework" -> fw_execute_keyword(keyword, locator, value, env)
      [] v = "selenium" -> sel_execute_keyword(keyword, locator, value, env)
      [] v = "behave" -> bh_execute(keyword, ltype, locator, value, env)

\* The argument a page-level handler (navigate, wait, verify_title, verify_url)
\* works with: the URL it opens, the seconds it sleeps, the text it expects.
\*   framework: keyword_map[keyword](locator, value) binds the locator to the
\*   handler's first parameter (url, seconds, expected_title, expected_url)
fw_first_parameter(locator, value) == locator

\*   selenium: "x = value if value else locator" in _navigate, _verify_title
\*   and _verify_url; _wait reads the value only
sel_value_or_locator(kw, locator, value) ==
    IF kw = KW_WAIT THEN value
    ELSE IF value # <<>> THEN value ELSE locator

\*   behave: execute() passes func's first positional argument according to
\*   what the step carries: the locator when there is one, else the data
bh_first_argument(locator_type, locator_value, data) ==
    CASE bh_shape(locator_type, locator_value, data) \in {"locator_data", "locator"} -> locator_value
      [] bh_shape(locator_type, locator_value, data) = "data" -> data
      [] OTHER -> <<>>

HandlerArgument(v, keyword, ltype, locator, value) ==
    CASE v = "framework" -> fw_first_parameter(locator, value)
      [] v = "selenium" -> sel_value_or_locator(Upper(Strip(keyword)), locator, value)
      [] v = "behave" -> bh_first_argument(ltype, locator, value)

\* the record kept of the last interpreter call
CallRecord(v, keyword, ltype, locator, value, env) ==
    [variant |-> v, keyword |-> keyword, ltype |-> ltype, locator |-> locator,
     value |-> value, env |-> env,
     used |-> HandlerArgument(v, keyword, ltype, locator, value),
     out |-> Execute(v, keyword, ltype, locator, value, env)]

NoCall == [variant |-> "none"]
NoInput == [keyword |-> <<>>]

\* ------------------------------------------------------------------------
\* The data source: a workbook is a function from sheet names to grids; a
\* grid is a sequence of rows of cells; the empty cell is <<>>
\* ------------------------------------------------------------------------
Absent == [absent |-> TRUE]

\* sheet.cell(r, c).value
Cell(grid, r, c) ==
    IF r <= Len(grid) /\ c <= Len(grid[r]) THEN grid[r][c] ELSE <<>>

NonEmptyCells(row) == SelectSeq(row, LAMBDA c : c # <<>>)

\* the indexes of the non-empty cells of a row, in column order
KeywordColumns(row) ==
    SelectSeq([i \in 1..Len(row) |-> i], LAMBDA i : row[i] # <<>>)

\* the last position of a name in a list of names (a dict keeps the last
\* value stored under a key)
LastIndexOf(names, f) ==
    CHOOSE i \in 1..Len(names) : names[i] = f /\ \A j \in 1..Len(names) : names[j] = f => j <= i

\* --- framework ExcelReader.read_screen_sheet ---------------------------
fw_field_names(grid) == NonEmptyCells(grid[1])

fw_locators(grid) == [i \in 1..Len(fw_field_names(grid)) |-> Cell(grid, 2, i)]

fw_field_locator_map(grid, field) ==
    fw_locators(grid)[LastIndexOf(fw_field_names(grid), field)]

\* the steps of the pair whose keyword row is row r
fw_pair_steps(grid, r) ==
    LET names == fw_field_names(grid)
        n == Len(names)
        keywords_row == [i \in 1..n |-> Cell(grid, r, i)]
        values_row == IF r + 1 <= Len(grid) THEN [i \in 1..n |-> Cell(grid, r + 1, i)] ELSE <<>>
        cols == KeywordColumns(keywords_row)
    IN  [j \in 1..Len(cols) |->
            [field |-> names[cols[j]],
             ltype |-> <<>>,
             locator |-> fw_field_locator_map(grid, names[cols[j]]),
             keyword |-> keywords_row[cols[j]],
             value |-> IF cols[j] <= Len(values_row) THEN values_row[cols[j]] ELSE <<>>]]

\* test_cases: one entry per pair (rows 3-4, 5-6, ...) that has a step
fw_test_cases(grid) ==
    LET npairs == IF Len(grid) >= 3 THEN (Len(grid) - 1) \div 2 ELSE 0
        all == [k \in 1..npairs |-> fw_pair_steps(grid, 2 * k + 1)]
    IN  SelectSeq(all, LAMBDA st : st # <<>>)

\* read_screen_sheet: None for a missing sheet, else the screen data
fw_read_screen_sheet(wb, screen) ==
    IF screen \notin DOMAIN wb THEN Absent
    ELSE [screen_name |-> screen, test_cases |-> fw_test_cases(wb[screen])]

\* --- selenium_framework ExcelReader.read_screen_sheet / parse_test_steps -
sel_field_names(grid) == [i \in 1..Len(NonEmptyCells(grid[1])) |-> Strip(NonEmptyCells(grid[1])[i])]

sel_locators(grid) == [i \in 1..Len(sel_field_names(grid)) |-> Strip(Cell(grid, 2, i))]

\* rows 3.. as lists of stripped strings; rows with no content are dropped
sel_test_data(grid) ==
    LET n == Len(sel_field_names(grid))
        nrows == IF Len(grid) >= 3 THEN Len(grid) - 2 ELSE 0
        all == [k \in 1..nrows |-> [i \in 1..n |-> Strip(Cell(grid, k + 2, i))]]
    IN  SelectSeq(all, LAMBDA row : \E i \in 1..Len(row) : row[i] # <<>>)

sel_read_screen_sheet(wb, screen) ==
    IF screen \notin DOMAIN wb THEN Absent
    ELSE IF sel_field_names(wb[screen]) = <<>> THEN Absent
    ELSE [screen_name |-> screen,
          field_names |-> sel_field_names(wb[screen]),
          locators |-> sel_locators(wb[screen]),
          test_data |-> sel_test_data(wb[screen])]

\* the steps of the pair (test_data[i], test_data[i + 1])
sel_pair_steps(sdata, i) ==
    LET names == sdata.field_names
        keywords_row == sdata.test_data[i]
        values_row == sdata.test_data[i + 1]
        cols == KeywordColumns(keywords_row)
    IN  [j \in 1..Len(cols) |->
            [field |-> names[cols[j]],
             ltype |-> <<>>,
             locator |-> Strip(sdata.locators[cols[j]]),
             keyword |-> Upper(Strip(keywords_row[cols[j]])),
             value |-> Strip(values_row[cols[j]])]]

RECURSIVE sel_steps_from(_, _)
sel_steps_from(sdata, i) ==
    IF i + 1 > Len(sdata.test_data) THEN <<>>
    ELSE sel_pair_steps(sdata, i) \o sel_steps_from(sdata, i + 2)

\* parse_test_steps: the steps of every complete pair, appended in order
sel_parse_test_steps(sdata) == sel_steps_from(sdata, 1)

\* --- selenium_behave_framework ExcelReader.read_all_data / read_keywords -
H_Keyword == <<"Keyword">>
H_Locator == <<"Locator">>
H_LocatorValue == <<"LocatorValue">>
H_TestData == <<"TestData">>

\* row.get(header) of the dictionary read_all_data builds for row r
bh_row_get(grid, r, header) ==
    LET headers == NonEmptyCells(grid[1])
    IN  IF \E j \in 1..Len(headers) : headers[j] = header
        THEN Cell(grid, r, LastIndexOf(headers, header))
        ELSE <<>>

\* the data rows read_all_data keeps: those with a value under some header
bh_data_rows(grid) ==
    LET headers == NonEmptyCells(grid[1])
    IN  SelectSeq([k \in 1..(Len(grid) - 1) |-> k + 1],
                  LAMBDA r : \E j \in 1..Len(headers) : Cell(grid, r, j) # <<>>)

\* read_keywords: one step per data row whose keyword is present
bh_read_keywords(grid) ==
    LET rows == SelectSeq(bh_data_rows(grid), LAMBDA r : bh_row_get(grid, r, H_Keyword) # <<>>)
    IN  [j \in 1..Len(rows) |->
            [field |-> <<>>,
             ltype |-> bh_row_get(grid, rows[j], H_Locator),
             locator |-> bh_row_get(grid, rows[j], H_LocatorValue),
             keyword |-> bh_row_get(grid, rows[j], H_Keyword),
             value |-> bh_row_get(grid, rows[j], H_TestData)]]

\* ------------------------------------------------------------------------
\* Workbooks
\* ------------------------------------------------------------------------
F_user == <<"u", "s", "e", "r">>
F_btn == <<"b", "t", "n">>
F_msg == <<"m", "s", "g">>
L_user == <<"/", "/", "u">>
L_msg == <<"/", "/", "m">>
LT_id == <<"i", "d">>

\* field row, locator row, then (keyword row, value row) pairs
GridLogin == << <<F_user, F_btn, F_msg>>,
                <<L_user, L_btn, L_msg>>,
                <<KW_ENTER, RAW_Click_padded, RAW_verify_text>>,
                <<T_Wel, <<>>, T_Wel>> >>

GridHome == << <<F_msg, F_btn>>,
               <<T_Wel, <<>>>>,
               <<KW_VERIFY_TITLE, KW_WAIT>>,
               <<T_wel, T_2>>,
               <<KW_CLICK, <<>>>>,
               <<T_Bye, <<>>>> >>

GridBad == << <<F_btn, F_user>>,
              <<L_btn, L_user>>,
              <<RAW_Foo_padded, KW_CLICK>>,
              <<<<>>, <<>>>> >>

GridOdd == << <<F_btn>>,
              <<L_btn>>,
              <<RAW_foo>>,
              <<T_2>> >>

\* two columns with the same field name
GridTwin == << <<F_btn, F_btn>>,
               <<L_btn, L_msg>>,
               <<KW_CLICK, KW_CLICK>>,
               <<<<>>, T_2>> >>

\* an empty header cell between two field names
GridGap == << <<F_user, <<>>, F_msg>>,
              <<L_user, L_btn, L_msg>>,
              <<KW_ENTER, KW_CLICK, KW_VERIFY_TEXT>>,
              <<T_Wel, <<>>, T_Wel>> >>

PairBook == [Login |-> GridLogin, Home |-> GridHome, Bad |-> GridBad, Odd |-> GridOdd,
             Twin |-> GridTwin, Gap |-> GridGap]

\* behave: header row, then one row per step
RowHeader == <<H_Keyword, H_Locator, H_LocatorValue, H_TestData>>

RowsLogin == << RowHeader,
                <<KW_ENTER, LT_id, L_user, T_Wel>>,
                <<RAW_Click_padded, LT_id, L_btn, <<>>>>,
                <<RAW_verify_text, LT_id, L_msg, T_Wel>> >>

RowsHome == << RowHeader,
               <<KW_VERIFY_TITLE, <<>>, <<>>, T_wel>>,
               <<KW_WAIT, <<>>, <<>>, T_2>> >>

RowsBad == << RowHeader,
              <<RAW_Foo_padded, LT_id, L_btn, <<>>>>,
              <<KW_CLICK, LT_id, L_btn, <<>>>> >>

RowsOdd == << RowHeader,
              <<RAW_foo, LT_id, L_btn, <<>>>> >>

\* a sheet whose only data row has no keyword
RowsVoid == << RowHeader,
               <<<<>>, LT_id, L_btn, <<>>>> >>

RowBook == [Login |-> RowsLogin, Home |-> RowsHome, Bad |-> RowsBad, Odd |-> RowsOdd,
            Void |-> RowsVoid]

Workbooks(v) == IF v = "behave" THEN {RowBook} ELSE {PairBook}

\* the ScreenFlow field after split(',') is a list of names; "" is a blank segment
MaxTests == 2

\* master tables: the selected test cases' flow fields, in order
MasterPool == { << <<"Login">> >>, << <<"Login", "Home">> >>, << <<"Ghost", "Home">> >>,
                << <<"Bad", "Login">> >>, << <<"Ghost">> >>, << <<"">> >>,
                << <<"Odd", "Home">> >>, << <<"Home", "Home">> >>,
                << <<"Twin">> >>, << <<"Gap">> >>, << <<"Void">> >>,
                << <<"Login">>, <<"Login", "Home">> >>,
                << <<"Bad", "Login">>, <<"Home">> >>,
                << <<"Ghost">>, <<"Login">> >>,
                << <<"Ghost">>, <<"Bad", "Login">>, <<"Home">> >> }

Masters == {m \in MasterPool : Len(m) <= MaxTests}

\* Execute cells as a tester may type them; <<>> is the empty cell
FLAG_Yes == <<"Y", "e", "s">>
FLAG_yes == <<"y", "e", "s">>
FLAG_Y == <<"Y">>
FLAG_TRUE == <<"T", "R", "U", "E">>
FLAG_true == <<"t", "r", "u", "e">>
FLAG_1 == <<"1">>
FLAG_No == <<"N", "o">>
FLAG_yes_padded == <<" ", "y", "e", "s">>

MasterRow(flag, flow) == [Execute |-> flag, ScreenFlow |-> flow]

\* a master sheet every row of which is marked Yes
AllYes(m) == [i \in 1..Len(m) |-> MasterRow(FLAG_Yes, m[i])]

\* master sheets with other Execute cells
FlagSheets == { << MasterRow(FLAG_No, <<"Login">>), MasterRow(FLAG_TRUE, <<"Home">>) >>,
                << MasterRow(FLAG_1, <<"Login">>), MasterRow(FLAG_yes_padded, <<"Home">>) >>,
                << MasterRow(<<>>, <<"Login">>), MasterRow(FLAG_Y, <<"Home">>) >>,
                << MasterRow(FLAG_true, <<"Login", "Home">>) >>,
                << MasterRow(FLAG_No, <<"Login">>) >>,
                << MasterRow(FLAG_yes, <<"Login">>), MasterRow(FLAG_No, <<"Bad">>),
                   MasterRow(FLAG_1, <<"Home">>) >> }

MasterSheets == {AllYes(m) : m \in Masters} \cup {t \in FlagSheets : Len(t) <= MaxTests}

\* str(cell): an empty cell is None
StrOfCell(cell) == IF cell = <<>> THEN <<"N", "o", "n", "e">> ELSE cell

\* framework read_master_sheet: str(Execute).strip().upper() in ['YES', 'Y']
fw_execute_selected(flag) ==
    Strip(Upper(StrOfCell(flag))) \in {Upper(FLAG_Yes), FLAG_Y}

\* selenium read_master_sheet: an empty cell is read as "";
\* str(Execute).strip().lower() in ["yes", "y", "true", "1"]
sel_execute_selected(flag) ==
    Lower(Strip(flag)) \in {FLAG_yes, Lower(FLAG_Y), FLAG_true, FLAG_1}

\* behave get_test_scenarios: str(Execute).lower() in ('yes', 'y', 'true', '1')
bh_execute_selected(flag) ==
    Lower(StrOfCell(flag)) \in {FLAG_yes, Lower(FLAG_Y), FLAG_true, FLAG_1}

\* the rows selected for execution, in sheet order
read_master_sheet(v, rows) ==
    SelectSeq(rows, LAMBDA row :
        CASE v = "framework" -> fw_execute_selected(row.Execute)
          [] v = "selenium" -> sel_execute_selected(row.Execute)
          [] v = "behave" -> bh_execute_selected(row.Execute))

\* the data source of a run: the file can be missing or unreadable, the
\* workbook can lack the master sheet, the master sheet the Execute column
\* or the ScreenFlow column
Sources == {"ok", "unreadable", "no_master", "no_execute_column",
            "no_screenflow_column"}

\* load_workbook and the lookup of the master sheet
source_loaded(src) == src \notin {"unreadable", "no_master"}

\* what the master reader hands to the run: read_master_sheet of framework
\* and selenium returns [] without the sheet or (selenium) a required column,
\* and a row without an Execute cell reads as '' or 'No' and is not selected
\* Without the ScreenFlow column selenium's reader returns [] (required
\* column); framework's execute_test_case reads test_case_data.get(
\* 'ScreenFlow', ''), whose split gives one empty name; KeywordExecutor gets
\* row.get('ScreenFlow') or row.get('Screens'), which is None (no_flow)
rows_selected(v, src, rows) ==
    CASE src = "ok" -> read_master_sheet(v, rows)
      [] src = "no_screenflow_column" /\ v = "framework" ->
            LET sel == read_master_sheet(v, rows) IN
            [i \in 1..Len(sel) |-> [sel[i] EXCEPT !.ScreenFlow = <<"">>]]
      [] src = "no_screenflow_column" /\ v = "behave" ->
            LET sel == read_master_sheet(v, rows) IN
            [i \in 1..Len(sel) |-> [sel[i] EXCEPT !.ScreenFlow = <<>>]]
      [] OTHER -> <<>>

\* screen_flow is None: screen_flow.split(',') raises AttributeError
no_flow(v, src) == v = "behave" /\ src = "no_screenflow_column"

\* framework TestExecutor.initialize: False when the workbook does not load
\* or no test case is selected
fw_initialize(src, selected) == src # "unreadable" /\ selected # <<>>

\* selenium TestExecutor.initialize: the same, after validate_excel_structure
sel_initialize(src, selected) == src # "unreadable" /\ selected # <<>>

\* ------------------------------------------------------------------------
\* Browser sessions
\* ------------------------------------------------------------------------
AllResources == {"playwright", "browser", "context", "page", "driver"}

\* what a session start opens, in order
StartOrder(v) ==
    IF v = "framework" THEN <<"playwright", "browser", "context", "page">>
    ELSE <<"driver">>

\* the ways a session start can go: how many resources it opened before it
\* stopped, and whether it reported success.  A Selenium start can also fail
\* after the driver exists (while the timeouts and the window are set)
StartOutcomes(v) ==
    IF v = "framework"
    THEN {[opened |-> n, ok |-> (n = 4)] : n \in 0..4}
    ELSE {[opened |-> 0, ok |-> FALSE], [opened |-> 1, ok |-> FALSE], [opened |-> 1, ok |-> TRUE]}

NoResources == [r \in AllResources |-> "none"]

NoSession == [opened |-> 0, ok |-> FALSE]

Opened(v, n) ==
    [r \in AllResources |->
        IF \E i \in 1..n : i <= Len(StartOrder(v)) /\ StartOrder(v)[i] = r THEN "open" ELSE "none"]

\* the fields that refer to the session after the start:
\*   BrowserManager.playwright/browser/context/page are assigned one by one;
\*   SeleniumDriver.driver is assigned as soon as the driver exists;
\*   KeywordExecutor.driver and DriverFactory._driver only when create_driver returned
RefsAfterStart(v, so) ==
    CASE v = "framework" -> {StartOrder(v)[i] : i \in 1..so.opened}
      [] v = "selenium" -> IF so.opened = 1 THEN {"driver"} ELSE {}
      [] v = "behave" -> IF so.ok THEN {"self.driver", "DriverFactory._driver"} ELSE {}

\* BrowserManager.close_browser: page, context, browser, playwright are closed
\* in this order inside one try; the c-th call raising ends the sequence
fw_close_order == <<"page", "context", "browser", "playwright">>

fw_close_browser(r, rf, c) ==
    LET todo == SelectSeq(fw_close_order, LAMBDA x : x \in rf)
        pos(x) == CHOOSE i \in 1..Len(todo) : todo[i] = x
    IN  [x \in AllResources |->
            IF \E i \in 1..Len(todo) : todo[i] = x
            THEN IF c = 0 \/ pos(x) < c THEN "closed"
                 ELSE IF pos(x) = c THEN "close_failed"
                 ELSE r[x]
            ELSE r[x]]

\* SeleniumDriver.close_browser: if self.driver: self.driver.quit()
sel_close_browser(r, rf, c) ==
    IF "driver" \in rf
    THEN [r EXCEPT !["driver"] = IF c = 0 THEN "closed" ELSE "close_failed"]
    ELSE r

\* KeywordExecutor._teardown_driver: if self.driver: quit(), and in its finally
\* DriverFactory.quit_driver() quits the same driver again.
\* c = 0: quit succeeds; c = 1: only the first quit raises; c = 2: both raise
bh_teardown_driver(r, rf, c) ==
    IF "self.driver" \in rf
    THEN [r EXCEPT !["driver"] =
             IF c = 0 \/ (c = 1 /\ "DriverFactory._driver" \in rf) THEN "closed" ELSE "close_failed"]
    ELSE r

CloseEnvs(v, rf) ==
    CASE v = "framework" -> 0..Cardinality(rf)
      [] v = "selenium" -> 0..1
      [] v = "behave" -> 0..2

\* ------------------------------------------------------------------------
\* Resolving a flow
\* ------------------------------------------------------------------------
ScreenPool == {"Login", "Home", "Bad", "Odd", "Twin", "Gap", "Void", "Ghost", ""}
NotCached == [cached |-> FALSE]
EmptyCache == [n \in ScreenPool |-> NotCached]

\* a resolution that serves each screen once: a screen already in the cache
\* is not added to the flow again
RECURSIVE fw_get_test_data_for_flow_once(_, _, _)
fw_get_test_data_for_flow_once(wb, cache, names) ==
    IF names = <<>> THEN [flow_data |-> <<>>, cache |-> cache]
    ELSE LET screen == Head(names)
             data == fw_read_screen_sheet(wb, screen)
         IN  IF data = Absent \/ cache[screen] # NotCached
             THEN fw_get_test_data_for_flow_once(wb, cache, Tail(names))
             ELSE LET rest == fw_get_test_data_for_flow_once(wb, [cache EXCEPT ![screen] = data], Tail(names))
                  IN  [flow_data |-> <<data>> \o rest.flow_data, cache |-> rest.cache]

\* a cache whose entry has lost the test case that was executed from it
fw_cached_consumed(cache, screen) ==
    [cache[screen] EXCEPT !.test_cases = IF @ = <<>> THEN @ ELSE Tail(@)]

\* screen_data = self.screen_data[screen]
fw_cached(cache, screen) == cache[screen]

\* framework ExcelReader.get_test_data_for_flow: every segment of the flow
\* field, cached screens first, absent screens skipped; read screens are cached
RECURSIVE fw_get_test_data_for_flow(_, _, _)
fw_get_test_data_for_flow(wb, cache, names) ==
    IF names = <<>> THEN [flow_data |-> <<>>, cache |-> cache]
    ELSE LET screen == Head(names)
             data == IF cache[screen] # NotCached THEN fw_cached(cache, screen)
                     ELSE fw_read_screen_sheet(wb, screen)
         IN  IF data = Absent
             THEN fw_get_test_data_for_flow(wb, cache, Tail(names))
             ELSE LET rest == fw_get_test_data_for_flow(wb, [cache EXCEPT ![screen] = data], Tail(names))
                  IN  [flow_data |-> <<data>> \o rest.flow_data, cache |-> rest.cache]

\* [name.strip() for name in screen_flow.split(",") if name.strip()]
NonBlank(names) == SelectSeq(names, LAMBDA n : n # "")

\* a resolution that gives up at the first screen it cannot read
RECURSIVE sel_get_test_data_for_flow_break(_, _)
sel_get_test_data_for_flow_break(wb, names) ==
    IF names = <<>> THEN <<>>
    ELSE LET data == sel_read_screen_sheet(wb, Head(names))
         IN  IF Head(names) = "" THEN sel_get_test_data_for_flow_break(wb, Tail(names))
             ELSE IF data = Absent THEN <<>>
             ELSE <<data>> \o sel_get_test_data_for_flow_break(wb, Tail(names))

\* selenium ExcelReader.get_test_data_for_flow: blank segments dropped, every
\* screen read again, unreadable screens skipped
RECURSIVE sel_get_test_data_for_flow(_, _)
sel_get_test_data_for_flow(wb, names) ==
    IF names = <<>> THEN <<>>
    ELSE LET data == sel_read_screen_sheet(wb, Head(names))
             rest == sel_get_test_data_for_flow(wb, Tail(names))
         IN  IF Head(names) = "" \/ data = Absent THEN rest ELSE <<data>> \o rest

\* ------------------------------------------------------------------------
\* Test case outcomes
\* ------------------------------------------------------------------------
None == <<"None">>
Path == <<"path">>

\* TestResult.__init__ + status = "Running" (behave); overall_status = "PASS",
\* error_message = "" (framework); test_passed = True, failure_reason = "",
\* screenshot_path = None (selenium)
NewResult(v) ==
    [status |-> IF v = "behave" THEN "Running" ELSE "PASS",
     steps |-> <<>>,
     error_message |-> IF v = "behave" THEN None ELSE <<>>,
     screenshot |-> None,
     ended |-> FALSE]

\* TestResult.add_step
add_step(r, n, keyword, status, message) ==
    [r EXCEPT !.steps = Append(@, [step_no |-> n, keyword |-> keyword,
                                   status |-> status, message |-> message])]

\* the exception handlers that end the per-test-case executors:
\* "except Exception" in all three
fw_executor_catches(fault) == TRUE
\* a handler that lets the executor's own "raise Exception(...)" through
sel_executor_catches_narrow(fault) == fault # "start_failed"
sel_executor_catches(fault) == TRUE
bh_executor_catches(fault) == TRUE

\* ReportGenerator.add_test_result / self.results.append(result)
add_test_result_first(rs, r) == <<r>> \o rs

add_test_result(rs, r) == Append(rs, r)

\* number of results with the given status
CountStatus(rs, st) == Cardinality({i \in 1..Len(rs) : rs[i].status = st})

NoSummary == [computed |-> FALSE]

\* framework ReportGenerator.generate_report: the statistics of the report
fw_generate_report(rs) ==
    [computed |-> TRUE, total |-> Len(rs),
     passed |-> CountStatus(rs, "PASS"), failed |-> CountStatus(rs, "FAIL")]

\* selenium ReportGenerator.generate_report: failed_tests = total - passed
sel_generate_report(rs) ==
    [computed |-> TRUE, total |-> Len(rs),
     passed |-> CountStatus(rs, "PASS"),
     failed |-> Len(rs) - CountStatus(rs, "PASS")]

\* the summary selenium TestExecutor.execute_all_tests logs from its counters
sel_logged_summary(total_tests, c) ==
    [total |-> total_tests, passed |-> c.passed, failed |-> c.failed]

\* a summary that leaves the errors out
bh_print_summary_no_errors(rs) ==
    [computed |-> TRUE, total |-> Len(rs),
     passed |-> CountStatus(rs, "Passed"), failed |-> CountStatus(rs, "Failed"),
     errors |-> 0]

\* KeywordExecutor._print_summary
bh_print_summary(rs) ==
    [computed |-> TRUE, total |-> Len(rs),
     passed |-> CountStatus(rs, "Passed"), failed |-> CountStatus(rs, "Failed"),
     errors |-> CountStatus(rs, "Error")]

\* a capture either stores the picture or fails
ShotEnvs == {"ok", "fails"}

\* the resource a capture is taken from: page.screenshot in BrowserManager,
\* driver.save_screenshot in SeleniumDriver and in KeywordEngine
CaptureSource(v) == IF v = "framework" THEN "page" ELSE "driver"

\* take_screenshot on the session r as it is when the capture is requested:
\* a file reference only when the source is open and the call does not fail
take_screenshot(v, r, shot) ==
    [live |-> r[CaptureSource(v)] = "open",
     got |-> IF shot = "ok" /\ r[CaptureSource(v)] = "open" THEN Path ELSE None]

\* ------------------------------------------------------------------------
\* The run
\* ------------------------------------------------------------------------
vars == <<variant, cfg, workbook, source, master_sheet, master, screen_data, pc, exit, idx, screens,
          screen_name, steps, step_no, result, res, refs, shots, captures, invoked,
          results, returns, counters, summary, run_returned, session, kwInput, call>>

\* EXECUTION_CONFIG of framework is fixed in its config module; Config of
\* the two Selenium variants reads both flags from the environment.
\* entry: the operation that runs the test cases. KeywordExecutor has two:
\* run_all_tests (master table, _run_test_case per row) and run_test_case,
\* which its caller hands the keyword list of one test case
Configs(v) ==
    CASE v = "framework" ->
            {[on_failure |-> TRUE, on_success |-> FALSE, entry |-> "execute_all_tests"]}
      [] v = "selenium" ->
            [on_failure : BOOLEAN, on_success : BOOLEAN, entry : {"execute_all_tests"}]
      [] v = "behave" ->
            [on_failure : BOOLEAN, on_success : BOOLEAN,
             entry : {"run_all_tests", "run_test_case"}]

Init ==
    /\ variant \in Variants
    /\ cfg \in Configs(variant)
    /\ workbook \in Workbooks(variant)
    /\ source \in Sources
    /\ master_sheet \in MasterSheets
    /\ master = <<>>
    /\ screen_data = EmptyCache
    /\ pc = "new"
    /\ exit = "none"
    /\ idx = 0
    /\ screens = <<>>
    /\ screen_name = ""
    /\ steps = <<>>
    /\ step_no = 1
    /\ result = NewResult(variant)
    /\ res = NoResources
    /\ refs = {}
    /\ shots = 0
    /\ captures = <<>>
    /\ invoked = <<>>
    /\ results = <<>>
    /\ returns = <<>>
    /\ counters = [passed |-> 0, failed |-> 0]
    /\ summary = NoSummary
    /\ run_returned = "running"
    /\ session = NoSession
    /\ kwInput = NoInput
    /\ call = NoCall

\* TestExecutor.initialize / KeywordExecutor.run_all_tests: the master sheet is
\* read and the selected rows become the test cases of the run.  A caller of
\* run_test_case chooses the test cases itself; the model lets it take the
\* selected rows.  framework and selenium end the run at once when no row is
\* selected (initialize returns False)
Initialize ==
    /\ pc = "new"
    /\ LET selected == rows_selected(variant, source, master_sheet)
           raises == variant = "behave" /\ ~source_loaded(source)
           ready == CASE variant = "framework" -> fw_initialize(source, selected)
                      [] variant = "selenium" -> sel_initialize(source, selected)
                      [] variant = "behave" -> ~raises
       IN
        /\ master' = [i \in 1..Len(selected) |-> selected[i].ScreenFlow]
        /\ pc' = IF raises THEN "aborted" ELSE IF ready THEN "idle" ELSE "done"
        /\ run_returned' = IF raises THEN "raised" ELSE IF ready THEN run_returned ELSE "False"
    /\ UNCHANGED <<variant, cfg, workbook, source, master_sheet, screen_data, exit, idx, screens,
                   screen_name, steps, step_no, result, res, refs, shots, captures, invoked,
                   results, returns, counters, summary, session, kwInput, call>>

\* the keyword list a caller of run_test_case hands over: the steps of the
\* first sheet its flow names, read with read_keywords
CallerKeywords(wb, flow) ==
    IF flow # <<>> /\ flow[1] \in DOMAIN wb THEN bh_read_keywords(wb[flow[1]]) ELSE <<>>

\* an executor that does not look at what the session start reported
Started_unchecked(v, so) == TRUE

\* "if not start_browser(): ..." / create_driver() returning instead of raising
Started(v, so) == so.ok

\* The run loop hands the next test case to the executor, which starts the
\* browser session and (framework, selenium) resolves the flow
StartTestCase ==
    /\ pc = "idle"
    /\ idx < Len(master)
    /\ \E so \in StartOutcomes(variant) :
        LET flow == master[idx + 1] IN
        /\ idx' = idx + 1
        /\ session' = so
        /\ res' = Opened(variant, so.opened)
        /\ refs' = RefsAfterStart(variant, so)
        /\ result' = NewResult(variant)
        /\ shots' = 0
        /\ captures' = <<>>
        /\ invoked' = <<>>
        /\ steps' = IF Started(variant, so) /\ cfg.entry = "run_test_case"
                     THEN CallerKeywords(workbook, flow) ELSE <<>>
        /\ step_no' = 1
        /\ screen_name' = ""
        /\ IF ~Started(variant, so)
           THEN /\ pc' = "finish"
                /\ exit' = "start_failed"
                /\ screens' = <<>>
                /\ UNCHANGED screen_data
           ELSE CASE variant = "framework" ->
                      LET r == fw_get_test_data_for_flow(workbook, screen_data, flow) IN
                      /\ screen_data' = r.cache
                      /\ screens' = r.flow_data
                      /\ pc' = IF r.flow_data = <<>> THEN "finish" ELSE "steps"
                      /\ exit' = IF r.flow_data = <<>> THEN "no_data" ELSE "none"
                  [] variant = "selenium" ->
                      LET fd == sel_get_test_data_for_flow(workbook, flow) IN
                      /\ screens' = fd
                      /\ pc' = IF fd = <<>> THEN "finish" ELSE "steps"
                      /\ exit' = IF fd = <<>> THEN "no_data" ELSE "none"
                      /\ UNCHANGED screen_data
                  [] variant = "behave" ->
                      LET bad == no_flow(variant, source) /\ cfg.entry = "run_all_tests" IN
                      /\ screens' = IF cfg.entry = "run_all_tests" /\ ~bad
                                    THEN NonBlank(flow) ELSE <<>>
                      /\ pc' = IF bad THEN "finish" ELSE "steps"
                      /\ exit' = IF bad THEN "bad_flow" ELSE "none"
                      /\ UNCHANGED screen_data
    /\ UNCHANGED <<variant, cfg, workbook, source, master_sheet, master, results, returns, counters, summary, run_returned, kwInput, call>>

\* reading a sheet of an open workbook may fail in the data source (behave
\* reads each screen when the loop reaches it)
ReadEnvs(v) == IF v = "behave" THEN {"ok", "io_error"} ELSE {"ok"}

\* The loop over the screens of the flow takes the next screen
EnterScreen ==
    /\ pc = "steps"
    /\ steps = <<>>
    /\ screens # <<>>
    /\ \E rd \in ReadEnvs(variant) :
        LET sd == Head(screens) IN
        /\ screens' = Tail(screens)
        /\ step_no' = 1
        /\ CASE variant = "framework" ->
                 /\ screen_name' = sd.screen_name
                 /\ steps' = IF sd.test_cases # <<>> THEN sd.test_cases[1] ELSE <<>>
                 /\ UNCHANGED <<pc, exit>>
             [] variant = "selenium" ->
                 /\ screen_name' = sd.screen_name
                 /\ steps' = sel_parse_test_steps(sd)
                 /\ UNCHANGED <<pc, exit>>
             [] variant = "behave" ->
                 /\ screen_name' = sd
                 /\ IF rd = "io_error"
                    THEN /\ steps' = <<>>
                         /\ pc' = "finish"
                         /\ exit' = "fault"
                    ELSE /\ steps' = IF sd \in DOMAIN workbook
                                     THEN bh_read_keywords(workbook[sd]) ELSE <<>>
                         /\ UNCHANGED <<pc, exit>>
    /\ UNCHANGED <<variant, cfg, workbook, source, master_sheet, master, screen_data, idx, result, res, refs,
                   shots, captures, invoked, results, returns, counters, summary, run_returned, session, kwInput, call>>

\* the step loop without its two breaks
fw_stop_flow_never(failed) == FALSE

\* a step handler that records the failure and does not re-raise
bh_stop_flow_never(failed) == FALSE

\* what the step loops do after a failed invocation: framework and selenium
\* break out of the step loop and then out of the screen loop; KeywordExecutor
\* re-raises the step's exception out of both loops
fw_stop_flow(failed) == failed
sel_stop_flow(failed) == failed
bh_stop_flow(failed) == failed

\* how the executor reads the interpreter's answer: framework and selenium
\* test the success flag of the pair; KeywordExecutor ignores what execute()
\* returns and takes only a raised exception for a failure
StepFailed(v, out) ==
    \/ out.kind = "raise"
    \/ v # "behave" /\ ~out.success

\* One keyword invocation and what the executor does with its outcome
InvokeStep ==
    /\ pc = "steps"
    /\ steps # <<>>
    /\ \E env \in StepEnvs, shot \in ShotEnvs :
        LET st == Head(steps)
            kw == PassedKeyword(variant, st.keyword)
            rec == CallRecord(variant, kw, st.ltype, st.locator, st.value, env)
            out == rec.out
            raised == out.kind = "raise"
            failed == StepFailed(variant, out)
            stop == CASE variant = "framework" -> raised \/ fw_stop_flow(failed)
                      [] variant = "selenium" -> raised \/ sel_stop_flow(failed)
                      [] variant = "behave" -> bh_stop_flow(failed)
            capture == failed /\ ~(raised /\ variant # "behave") /\ cfg.on_failure
                       /\ variant \in {"framework", "behave"}
            cap == take_screenshot(variant, res, shot)
        IN
        /\ call' = rec
        /\ invoked' = Append(invoked, [screen |-> screen_name, step_no |-> step_no,
                                       keyword |-> kw, ok |-> ~failed])
        /\ shots' = IF capture THEN shots + 1 ELSE shots
        /\ captures' = IF capture THEN Append(captures, cap) ELSE captures
        /\ result' =
             IF ~failed
             THEN IF variant = "behave"
                  THEN add_step(result, step_no, kw, "Passed", <<>>)
                  ELSE result
             ELSE CASE variant = "behave" ->
                         [add_step(result, step_no, kw, "Failed", out.message)
                            EXCEPT !.error_message =
                                      IF cfg.entry = "run_test_case" THEN out.message
                                      ELSE <<"Screen: ", screen_name, ", Step: ",
                                             ToString(step_no), " - ">> \o out.message,
                                   !.status = "Failed",
                                   !.screenshot =
                                      IF capture /\ cap.got = Path THEN Path ELSE @]
                    [] variant = "framework" ->
                         IF raised
                         THEN [result EXCEPT !.error_message = out.message]
                         ELSE [result EXCEPT !.status = "FAIL",
                                             !.error_message = out.message]
                    [] variant = "selenium" ->
                         IF raised
                         THEN [result EXCEPT !.error_message = out.message]
                         ELSE [result EXCEPT !.status = "FAIL",
                                             !.error_message =
                                                <<"Step ", ToString(step_no),
                                                  " failed: ">> \o out.message]
        /\ IF stop
           THEN /\ steps' = <<>>
                /\ step_no' = step_no
                /\ pc' = "finish"
                /\ exit' = IF variant = "behave" THEN "step_failed"
                           ELSE IF raised THEN "fault" ELSE "loop_done"
           ELSE /\ steps' = Tail(steps)
                /\ step_no' = step_no + 1
                /\ UNCHANGED <<pc, exit>>
    /\ UNCHANGED <<variant, cfg, workbook, source, master_sheet, master, screen_data, idx, screens, screen_name,
                   res, refs, results, returns, counters, summary, run_returned, session, kwInput>>

\* how the step loop of the test case that finishes now was left
ExitNow == IF pc = "steps" THEN "loop_done" ELSE exit

Returned(ok, status) == [id |-> idx, flow |-> master[idx], ok |-> ok, status |-> status]

Stored(r) == [id |-> idx, status |-> r.status, steps |-> r.steps,
              error_message |-> r.error_message, screenshot |-> r.screenshot,
              ended |-> r.ended]

\* framework TestExecutor.execute_test_case from the end of the screen loop
\* (or from an early return) to its return
fw_finish(shot, c) ==
    LET ex == ExitNow
        take == ex = "loop_done" /\
                ((result.status = "PASS" /\ cfg.on_success) \/
                 (result.status = "FAIL" /\ cfg.on_failure))
        cap == take_screenshot("framework", res, shot)
        final == [result EXCEPT !.screenshot = IF take THEN cap.got ELSE <<>>]
        escaped == ex = "fault" /\ ~fw_executor_catches(ex)
    IN
    /\ shots' = IF take THEN shots + 1 ELSE shots
    /\ captures' = IF take THEN Append(captures, cap) ELSE captures
    /\ res' = IF ex = "start_failed" \/ escaped THEN res ELSE fw_close_browser(res, refs, c)
    /\ result' = IF ex = "loop_done" THEN final ELSE result
    /\ results' = IF ex = "loop_done" THEN add_test_result(results, Stored(final)) ELSE results
    /\ returns' = IF escaped THEN returns
                  ELSE Append(returns, Returned(ex = "loop_done" /\ result.status = "PASS",
                                                IF ex = "loop_done" THEN result.status
                                                ELSE "unrecorded"))
    /\ pc' = IF escaped THEN "aborted" ELSE "idle"
    /\ UNCHANGED counters

\* counters that leave out a test case that did not pass
sel_update_counters_passed_only(c, passed) ==
    IF passed THEN [c EXCEPT !.passed = @ + 1] ELSE c

\* "if test_passed: self.passed_tests += 1 else: self.failed_tests += 1"
sel_update_counters(c, passed) ==
    IF passed THEN [c EXCEPT !.passed = @ + 1] ELSE [c EXCEPT !.failed = @ + 1]

\* selenium TestExecutor.execute_test_case from the end of the screen loop
\* (or from a raise inside the try) to its return
sel_finish(shot, c) ==
    LET ex == ExitNow
        raised == ex # "loop_done"
        caught == raised /\ sel_executor_catches(ex)
        escaped == raised /\ ~caught
        passed == ~raised /\ result.status = "PASS"
        take == IF raised THEN caught /\ cfg.on_failure
                ELSE (passed /\ cfg.on_success) \/ (~passed /\ cfg.on_failure)
        cap == take_screenshot("selenium", res, shot)
        picture == IF take THEN cap.got ELSE None
        reason == CASE ex = "start_failed" -> <<"Failed to start browser">>
                    [] ex = "no_data" -> <<"No test data found for screen flow">>
                    [] OTHER -> result.error_message
        final == [result EXCEPT !.status = IF passed THEN "PASS" ELSE "FAIL",
                                !.error_message = IF passed THEN <<>> ELSE reason,
                                !.screenshot = picture]
    IN
    /\ shots' = IF take THEN shots + 1 ELSE shots
    /\ captures' = IF take THEN Append(captures, cap) ELSE captures
    /\ res' = sel_close_browser(res, refs, c)
    /\ result' = final
    /\ counters' = IF escaped THEN counters ELSE sel_update_counters(counters, passed)
    /\ results' = IF escaped THEN results ELSE add_test_result(results, Stored(final))
    /\ returns' = IF escaped THEN returns ELSE Append(returns, Returned(passed, final.status))
    /\ pc' = IF escaped THEN "aborted" ELSE "idle"

\* the handler of run_test_case, which sets Error whatever the status was
bh_status_on_exception_always(status) == "Error"

\* "except Exception as e: if result.status != 'Failed': status = 'Error'"
bh_status_on_exception(status) ==
    IF status # "Failed" THEN "Error" ELSE status

\* a loop exit that counts a test case without any step as failed
bh_status_after_loop_strict(r) ==
    IF r.status = "Failed" \/ r.steps = <<>> THEN "Failed" ELSE "Passed"

\* "if result.status != 'Failed': result.status = 'Passed'"
bh_status_after_loop(r) ==
    IF r.status # "Failed" THEN "Passed" ELSE r.status

\* KeywordExecutor._run_test_case from the end of the screen loop (or from a
\* raise inside the try) to its return, and run_all_tests storing the result;
\* run_test_case from the end of its step loop (left by break after a failed
\* step) to its return
bh_finish(shot, c) ==
    LET ex == ExitNow
        all == cfg.entry = "run_all_tests"
        passing == ex = "loop_done"
        take == all /\ passing /\ cfg.on_success
        cap == take_screenshot("behave", res, shot)
        raised == IF all THEN ~passing \/ (take /\ cap.got # Path)
                  ELSE ex = "start_failed"
        caught == raised /\ bh_executor_catches(ex)
        escaped == raised /\ ~caught
        reason == CASE ex = "start_failed" -> <<"session not created">>
                    [] ex = "fault" -> <<"data source error">>
                    [] ex = "bad_flow" -> <<"'NoneType' object has no attribute 'split'">>
                    [] OTHER -> <<"screenshot failed">>
        r1 == IF passing THEN [result EXCEPT !.status = bh_status_after_loop(result)]
              ELSE result
        r2 == IF take /\ cap.got = Path THEN [r1 EXCEPT !.screenshot = Path] ELSE r1
        r3 == IF caught
              THEN [r2 EXCEPT !.status = IF all THEN bh_status_on_exception(r2.status)
                                         ELSE "Error",
                              !.error_message = IF all /\ r2.status = "Failed" THEN @
                                                ELSE reason]
              ELSE r2
        final == [r3 EXCEPT !.ended = TRUE]
    IN
    /\ shots' = IF take THEN shots + 1 ELSE shots
    /\ captures' = IF take THEN Append(captures, cap) ELSE captures
    /\ res' = bh_teardown_driver(res, refs, c)
    /\ result' = final
    /\ results' = IF escaped \/ ~all THEN results ELSE add_test_result(results, Stored(final))
    /\ returns' = IF escaped THEN returns
                  ELSE Append(returns, Returned(final.status = "Passed", final.status))
    /\ pc' = IF escaped THEN "aborted" ELSE "idle"
    /\ exit' = IF take /\ cap.got # Path THEN "capture_failed" ELSE ex
    /\ UNCHANGED counters

\* the references left after the executor returned: KeywordExecutor clears
\* self.driver and DriverFactory._driver in _teardown_driver
RefsAfterFinish(v, rf) ==
    IF v = "behave" THEN {} ELSE rf

\* an exception that leaves the per-test-case executor: execute_all_tests of
\* framework and selenium catches it and returns False, run_all_tests logs
\* it and raises it again
run_aborted(v) == IF v = "behave" THEN "raised" ELSE "False"

\* The executor leaves the test case: final capture, session release, result
FinishTestCase ==
    /\ \/ pc = "finish"
       \/ pc = "steps" /\ steps = <<>> /\ screens = <<>>
    /\ \E shot \in ShotEnvs, c \in CloseEnvs(variant, refs) :
        CASE variant = "framework" -> fw_finish(shot, c) /\ exit' = ExitNow
          [] variant = "selenium" -> sel_finish(shot, c) /\ exit' = ExitNow
          [] variant = "behave" -> bh_finish(shot, c)
    /\ refs' = RefsAfterFinish(variant, refs)
    /\ run_returned' = IF pc' = "aborted" THEN run_aborted(variant) ELSE run_returned
    /\ UNCHANGED <<variant, cfg, workbook, source, master_sheet, master, screen_data, idx, screens, screen_name,
                   steps, step_no, invoked, summary, session, kwInput, call>>

\* what the run computes from the results once the loop over the master
\* table is through: framework and selenium generate the report, selenium
\* logs its own counters before that, KeywordExecutor.run_all_tests prints
\* the summary; run_test_case is a single execution without a summary
run_summary(v, entry, rs, total_tests, c) ==
    CASE v = "framework" -> fw_generate_report(rs)
      [] v = "selenium" -> [computed |-> TRUE, report |-> sel_generate_report(rs),
                            logged |-> sel_logged_summary(total_tests, c)]
      [] v = "behave" -> IF entry = "run_all_tests" THEN bh_print_summary(rs)
                         ELSE NoSummary

\* framework execute_all_tests: "return True" after the report
fw_run_returns(rs) == "True"

\* selenium execute_all_tests: all_passed = self.failed_tests == 0
sel_run_returns(c) == IF c.failed = 0 THEN "True" ELSE "False"

\* The run loop is through with the master table: summary and report
FinishRun ==
    /\ pc = "idle"
    /\ idx = Len(master)
    /\ pc' = "done"
    /\ summary' = run_summary(variant, cfg.entry, results, Len(master), counters)
    /\ run_returned' = CASE variant = "framework" -> fw_run_returns(results)
                      [] variant = "selenium" -> sel_run_returns(counters)
                      [] variant = "behave" -> "results"
    /\ UNCHANGED <<variant, cfg, workbook, source, master_sheet, master, screen_data, exit, idx, screens,
                   screen_name, steps, step_no, result, res, refs, shots, captures, invoked,
                   results, returns, counters, session, kwInput, call>>

Next == Initialize \/ StartTestCase \/ EnterScreen \/ InvokeStep \/ FinishTestCase \/ FinishRun

Spec == Init /\ [][Next]_vars

\* ------------------------------------------------------------------------
\* The interpreter on its own: one call with arbitrary arguments
\* ------------------------------------------------------------------------
KwInputs == [keyword : RawKeywords, ltype : LocatorTypes, locator : Locators,
             value : Values, env : Envs]

InitKw ==
    /\ variant \in Variants
    /\ cfg = [on_failure |-> TRUE, on_success |-> FALSE, entry |-> "execute_keyword"]
    /\ workbook \in Workbooks(variant)
    /\ source = "ok"
    /\ master_sheet = <<>>
    /\ master = <<>>
    /\ screen_data = EmptyCache
    /\ pc = "interpreter"
    /\ exit = "none"
    /\ idx = 0
    /\ screens = <<>>
    /\ screen_name = ""
    /\ steps = <<>>
    /\ step_no = 1
    /\ result = NewResult(variant)
    /\ res = NoResources
    /\ refs = {}
    /\ shots = 0
    /\ captures = <<>>
    /\ invoked = <<>>
    /\ results = <<>>
    /\ returns = <<>>
    /\ counters = [passed |-> 0, failed |-> 0]
    /\ summary = NoSummary
    /\ run_returned = "running"
    /\ session = NoSession
    /\ kwInput \in KwInputs
    /\ call = NoCall

\* execute_keyword(keyword, locator, value) / execute(keyword, locator_type,
\* locator_value, data) called with the input as given
ExecuteKeyword ==
    /\ pc = "interpreter"
    /\ call = NoCall
    /\ call' = CallRecord(variant, kwInput.keyword, kwInput.ltype, kwInput.locator,
                          kwInput.value, kwInput.env)
    /\ UNCHANGED <<variant, cfg, workbook, source, master_sheet, master, screen_data, pc, exit, idx, screens,
                   screen_name, steps, step_no, result, res, refs, shots, captures, invoked,
                   results, returns, counters, summary, run_returned, session, kwInput>>

NextKw == ExecuteKeyword

SpecKw == InitKw /\ [][NextKw]_vars

\* ------------------------------------------------------------------------
\* Properties
\* ------------------------------------------------------------------------
\* the executor has returned from test case idx
Finished == pc = "idle" /\ idx > 0

\* the registry key a keyword cell stands for
Normal(keyword) == Strip(Upper(keyword))

\* the last interpreter call belongs to the current test case
Called == invoked # <<>> /\ call.variant # "none"

LastInvoked == invoked[Len(invoked)]

\* C1: in each of the three flow executors, once the keyword invocation of one
\* step has failed, no further keyword is invoked for that test case, neither
\* for the rest of the screen nor for a later screen: a failed invocation is
\* always the last invocation of its test case.
C1_StopOnFirstFailure ==
    \A i \in 1..Len(invoked) : ~invoked[i].ok => i = Len(invoked)

\* the second step of Login failed in a Login,Home flow and the executor
\* returned without the third step and without Home
C1_Witness ==
    /\ Finished
    /\ master[idx] = <<"Login", "Home">>
    /\ Len(invoked) = 2
    /\ ~invoked[2].ok

\* C2: by the time the executor has returned from a test case, every browser
\* session resource opened for it, the parts opened by a start-up that failed
\* part-way included, has been closed (or its close has at least been called).
C2_SessionReleased ==
    Finished => \A r \in AllResources : res[r] # "open"

BadConversion(c) ==
    LET kw == Normal(c.keyword) IN
    \/ c.variant = "framework" /\ kw = KW_WAIT /\ c.locator # <<>> /\ ~IsNumeric(c.locator)
    \/ c.variant = "framework" /\ kw = KW_WAIT_FOR_ELEMENT /\ c.value # <<>> /\ ~IsNumeric(c.value)
    \/ c.variant = "selenium" /\ kw = KW_WAIT /\ c.value # <<>> /\ ~IsNumeric(c.value)
    \/ c.variant = "selenium" /\ kw = KW_WAIT_FOR_ELEMENT /\ c.locator # <<>>
          /\ c.value # <<>> /\ ~IsNumeric(c.value)

\* the handler of the call reaches the automation driver
DriverReached(c) ==
    LET kw == Normal(c.keyword) IN
    /\ kw \in keyword_map \ {KW_WAIT}
    /\ ~BadConversion(c)
    /\ c.variant = "selenium" =>
          /\ kw \in {KW_CLICK, KW_ENTER, KW_VERIFY_TEXT, KW_WAIT_FOR_ELEMENT} => c.locator # <<>>
          /\ kw = KW_NAVIGATE => (c.value # <<>> \/ c.locator # <<>>)

\* C4: execute_keyword of framework and of selenium_framework returns a
\* (success, message) pair for every keyword, locator and value; a fault of
\* the driver or a failed conversion in the handler becomes success = False,
\* and nothing is raised to the caller.
C4_FaultsBecomeFailures ==
    call.variant \in {"framework", "selenium"} =>
        /\ call.out.kind = "return"
        /\ (BadConversion(call) \/ (DriverReached(call) /\ call.env.fault # "none"))
              => ~call.out.success

\* the names of a flow that the data source holds
PresentScreens(flow) == SelectSeq(flow, LAMBDA n : n \in DOMAIN workbook)

\* the flow names a screen the data source does not hold
HasAbsentScreen(flow) == \E i \in 1..Len(flow) : flow[i] # "" /\ flow[i] \notin DOMAIN workbook

\* the screens whose steps were invoked, in the order they were entered
ScreensRun ==
    LET firsts == SelectSeq(invoked, LAMBDA e : e.step_no = 1)
    IN  [i \in 1..Len(firsts) |-> firsts[i].screen]

AllInvokedOk == \A i \in 1..Len(invoked) : invoked[i].ok

\* the executor's last return is that of test case idx
LastReturned == returns # <<>> /\ returns[Len(returns)].id = idx

\* the last stored result is that of test case idx
LastStored == results # <<>> /\ results[Len(results)].id = idx

EndedPassed == LastReturned /\ returns[Len(returns)].ok

\* the test case met no fault of the session, the data source (a sheet that
\* cannot be read, a flow field that is missing) or a capture
NoOrchestrationFault == session.ok /\ exit \notin {"fault", "capture_failed", "bad_flow"}

C6_TerminalStatus ==
    (Finished /\ variant = "behave") =>
        /\ cfg.entry = "run_all_tests" => (LastStored /\ results[Len(results)] = Stored(result))
        /\ LastReturned /\ returns[Len(returns)].status = result.status
        /\ result.ended
        /\ result.status \in {"Passed", "Failed", "Error"}
        /\ result.status = "Failed" <=> ~AllInvokedOk
        /\ result.status = "Passed" <=> (AllInvokedOk /\ NoOrchestrationFault)
        /\ result.status = "Error" <=> ~NoOrchestrationFault

\* KeywordExecutor returned an Error result after a data source fault that
\* followed passed steps
C6_Witness ==
    /\ Finished
    /\ variant = "behave"
    /\ result.status = "Error"
    /\ exit = "fault"
    /\ invoked # <<>>

C8_EveryTestCaseRunsOnce ==
    /\ pc = "aborted" => (idx = 0 /\ ~source_loaded(source))
    /\ Len(returns) = IF pc \in {"new", "idle", "done", "aborted"} THEN idx ELSE idx - 1
    /\ \A i \in 1..Len(returns) : returns[i].id = i /\ returns[i].flow = master[i]
    /\ pc = "done" => Len(returns) = Len(master)

\* a run of two test cases ended although the first could not start its session
C8_Witness ==
    /\ pc = "done"
    /\ Len(master) = 2
    /\ Len(returns) = 2
    /\ ~returns[1].ok
    /\ returns[2].ok

\* C9: the steps list of a KeywordExecutor result has one entry per keyword
\* invocation attempted; Passed: every entry Passed; Failed: exactly one
\* Failed entry, the last; Error: no Failed entry.
C9_StepsMatchInvocations ==
    variant = "behave" =>
        /\ Len(result.steps) = Len(invoked)
        /\ Finished =>
            LET st == result.steps
                n == Len(st)
            IN  /\ result.status = "Passed" => \A i \in 1..n : st[i].status = "Passed"
                /\ result.status = "Failed" =>
                      /\ n > 0
                      /\ st[n].status = "Failed"
                      /\ \A i \in 1..(n - 1) : st[i].status = "Passed"
                /\ result.status = "Error" => \A i \in 1..n : st[i].status # "Failed"

\* a Failed result whose third step failed after two passed ones
C9_Witness ==
    /\ Finished
    /\ variant = "behave"
    /\ result.status = "Failed"
    /\ Len(result.steps) = 3

\* the expected value of a verification step, where each variant's handler
\* takes it from: the value for VERIFY_TEXT; for VERIFY_TITLE and VERIFY_URL
\* the first argument (framework), the value or else the locator
\* (selenium_framework), the test data (selenium_behave_framework)
Expected(c) ==
    IF Normal(c.keyword) = KW_VERIFY_TEXT THEN c.value
    ELSE CASE c.variant = "framework" -> c.locator
           [] c.variant = "selenium" -> IF c.value # <<>> THEN c.value ELSE c.locator
           [] c.variant = "behave" -> c.value

\* the step carries what its handler needs: an expected value, a located
\* element for VERIFY_TEXT, and for KeywordExecutor's page checks no locator
WellFormedVerify(c) ==
    /\ Expected(c) # <<>>
    /\ IF Normal(c.keyword) = KW_VERIFY_TEXT
       THEN c.locator # <<>> /\ (c.variant = "behave" => c.ltype # <<>>)
       ELSE c.variant = "behave" => (c.locator = <<>> /\ c.ltype = <<>>)

\* C10: a VERIFY_TEXT, VERIFY_TITLE or VERIFY_URL step succeeds if and only
\* if its expected value is a substring of the value read from the page.
C10_VerifyIsContainment ==
    (/\ call.variant # "none"
     /\ Normal(call.keyword) \in VerifyKeywords
     /\ call.env.fault = "none"
     /\ WellFormedVerify(call)) =>
        (~StepFailed(call.variant, call.out) <=> Contains(Expected(call), call.env.actual))

\* the keywords whose handler works on the page with one argument
PageKeywords == {KW_NAVIGATE, KW_WAIT, KW_VERIFY_TITLE, KW_VERIFY_URL}

\* the step has no locator and has a value
ValueOnly(c) == c.locator = <<>> /\ c.value # <<>>

\* C11: a step with an empty locator and a non-empty value is a value-only
\* invocation: the handler of NAVIGATE, WAIT, VERIFY_TITLE or VERIFY_URL works
\* with the step's value, and a WAIT step succeeds exactly when the value is a
\* number of seconds.
C11_ValueOnlyInvocation ==
    (/\ call.variant # "none"
     /\ Normal(call.keyword) \in PageKeywords
     /\ ValueOnly(call)) =>
        /\ call.used = call.value
        /\ Normal(call.keyword) = KW_WAIT =>
              (~StepFailed(call.variant, call.out) <=> IsNumeric(call.value))

WaitKeywords == {KW_WAIT, KW_WAIT_FOR_ELEMENT}

\* a wait step that lacks nothing but its value: WAIT carries no locator,
\* WAIT_FOR_ELEMENT carries the locator of the element (with its type in a
\* keyword sheet of selenium_behave_framework)
WaitWithoutValue(c) ==
    /\ c.value = <<>>
    /\ IF Normal(c.keyword) = KW_WAIT
       THEN c.locator = <<>>
       ELSE c.locator # <<>> /\ (c.variant = "behave" => c.ltype # <<>>)

\* C12: a WAIT or WAIT_FOR_ELEMENT step whose value is empty does not fail for
\* the missing value: it runs with the default duration, so WAIT succeeds and
\* WAIT_FOR_ELEMENT succeeds exactly when the element shows up.
C12_WaitFallsBackToDefault ==
    (/\ call.variant # "none"
     /\ Normal(call.keyword) \in WaitKeywords
     /\ WaitWithoutValue(call)) =>
        (~StepFailed(call.variant, call.out) <=>
            (Normal(call.keyword) = KW_WAIT \/ call.env.fault = "none"))

\* the truthy tokens of the Execute flag
TruthyTokens == {FLAG_yes, Lower(FLAG_Y), FLAG_true, FLAG_1}

\* the flows of the rows of a sheet, in order
FlowsOf(rows) == [i \in 1..Len(rows) |-> rows[i].ScreenFlow]

\* no Execute cell of the master sheet has blanks around its text
FlagsUnpadded == \A i \in 1..Len(master_sheet) :
                    Strip(master_sheet[i].Execute) = master_sheet[i].Execute

\* C13: once the master sheet is read, the test cases of the run are exactly
\* the rows whose Execute flag, compared without regard to case, is one of
\* yes, y, true, 1, in sheet order; rows with any other flag are left out.
C13_ExecuteFlagSelects ==
    (pc \notin {"new", "interpreter"} /\ FlagsUnpadded) =>
        master = FlowsOf(SelectSeq(master_sheet,
                                   LAMBDA row : Lower(row.Execute) \in TruthyTokens))

\* the sheet row of the first keyword row ("row_idx = 3")
FirstKeywordRow == 3

\* the screen tables of framework and selenium_framework hold row pairs
PairVariants == {"framework", "selenium"}

\* the keywords of the first (keyword row, value row) pair of a screen table:
\* the non-empty cells of its third row, as registry keys
FirstPairKeywords(grid) ==
    LET row == IF Len(grid) >= FirstKeywordRow
               THEN NonEmptyCells(grid[FirstKeywordRow])
               ELSE <<>>
    IN  [i \in 1..Len(row) |-> Normal(row[i])]

\* C14: the executor invokes only the steps of the first (keyword row, value
\* row) pair of each screen: every invocation is the n-th step of its screen
\* for an n within the first pair and carries that pair's n-th keyword.
C14_OnlyFirstPairInvoked ==
    variant \in PairVariants =>
        \A i \in 1..Len(invoked) :
            LET first == FirstPairKeywords(workbook[invoked[i].screen]) IN
            /\ invoked[i].step_no <= Len(first)
            /\ Normal(invoked[i].keyword) = first[invoked[i].step_no]

\* the executor has just read the steps of screen screen_name
ScreenEntered == pc = "steps" /\ screen_name # "" /\ step_no = 1

\* C15: flattening a (keyword row, value row) pair gives one step for each
\* column with a keyword, in column order, and none for a column without,
\* whatever the value row holds (an entirely empty value row included): the
\* steps read for a screen start with the keywords of its first pair.
C15_KeywordCellsMakeSteps ==
    (variant \in PairVariants /\ ScreenEntered) =>
        LET first == FirstPairKeywords(workbook[screen_name]) IN
        /\ Len(steps) >= Len(first)
        /\ \A j \in 1..Len(first) : Normal(steps[j].keyword) = first[j]

\* the steps a variant defines for a screen of the workbook
StepsOfScreen(name) ==
    CASE variant = "framework" ->
            LET d == fw_read_screen_sheet(workbook, name)
            IN  IF d.test_cases # <<>> THEN d.test_cases[1] ELSE <<>>
      [] variant = "selenium" ->
            LET d == sel_read_screen_sheet(workbook, name)
            IN  IF d = Absent THEN <<>> ELSE sel_parse_test_steps(d)
      [] variant = "behave" -> bh_read_keywords(workbook[name])

\* the occurrences of the flow's names that have steps to invoke, in flow order
Runnable(flow) ==
    SelectSeq(flow, LAMBDA n : n \in DOMAIN workbook /\ StepsOfScreen(n) # <<>>)

\* C16: the invocations of a test case follow its flow: the screens are run
\* in the order of the flow field, one run per occurrence of a name; within a
\* screen the steps are invoked in their order, each after the one before it
\* has returned a success, and a screen is entered after the one before it
\* is through; a flow that ends without a failure has run every occurrence.
C16_InvocationsFollowTheFlow ==
    (idx > 0 /\ cfg.entry # "run_test_case") =>
        LET runnable == Runnable(master[idx]) IN
        /\ Len(ScreensRun) <= Len(runnable)
        /\ \A k \in 1..Len(ScreensRun) : ScreensRun[k] = runnable[k]
        /\ \A i \in 1..Len(invoked) :
              LET e == invoked[i]
                  st == StepsOfScreen(e.screen)
              IN  /\ e.step_no <= Len(st)
                  /\ e.keyword = PassedKeyword(variant, st[e.step_no].keyword)
                  /\ i = 1 => e.step_no = 1
                  /\ (i > 1 /\ e.step_no > 1) =>
                        /\ invoked[i - 1].screen = e.screen
                        /\ invoked[i - 1].step_no = e.step_no - 1
                        /\ invoked[i - 1].ok
                  /\ (i > 1 /\ e.step_no = 1) =>
                        /\ invoked[i - 1].step_no = Len(StepsOfScreen(invoked[i - 1].screen))
                        /\ invoked[i - 1].ok
        /\ (Finished /\ AllInvokedOk /\ exit = "loop_done") =>
              /\ ScreensRun = runnable
              /\ invoked # <<>> => LastInvoked.step_no = Len(StepsOfScreen(LastInvoked.screen))

\* a Home,Home flow ended after both occurrences of Home were run
C16_Witness ==
    /\ Finished
    /\ master[idx] = <<"Home", "Home">>
    /\ ScreensRun = <<"Home", "Home">>
    /\ AllInvokedOk
    /\ exit = "loop_done"

\* a capture was requested in the test case and no picture came of it
CaptureFailed == shots > 0 /\ result.screenshot # Path

\* C17: a diagnostic capture that fails does not change the status of the
\* test case: with the session acquired and no fault of the data source, a
\* test case whose capture failed ends passed exactly when every invocation
\* succeeded, as it does when the capture succeeds.
C17_CaptureFailureKeepsStatus ==
    (/\ Finished
     /\ session.ok
     /\ exit \in {"loop_done", "step_failed", "capture_failed"}
     /\ CaptureFailed) =>
        (EndedPassed <=> AllInvokedOk)


\* a test case that ended because one of its invocations failed
EndedOnFailedStep ==
    /\ Finished /\ session.ok
    /\ exit \in {"loop_done", "step_failed"}
    /\ ~AllInvokedOk

SomeCaptureSucceeded == \E k \in 1..Len(captures) : captures[k].got = Path

\* C18: when a test case ends Failed because a step failed, failure capture is
\* enabled and the capture succeeds, the result recorded for the test case
\* carries the reference the capture returned, and every capture was
\* requested while the session was still open
C18_FailureCaptureAttached ==
    (EndedOnFailedStep /\ cfg.on_failure) =>
        /\ captures # <<>>
        /\ \A k \in 1..Len(captures) : captures[k].live
        /\ SomeCaptureSucceeded => result.screenshot = Path
        /\ (SomeCaptureSucceeded /\ cfg.entry # "run_test_case") =>
               (LastStored /\ results[Len(results)].screenshot = Path)


\* the collection keeps what it had and gains at most the result of the test
\* case that just finished, at its end
KeepsAndAppends ==
    \/ results' = results
    \/ /\ Len(results') = Len(results) + 1
       /\ SubSeq(results', 1, Len(results)) = results
       /\ results'[Len(results')] = Stored(result')

\* the stored results are in the order in which their test cases were run,
\* and each is what the executor returned for its test case
StoredInOrder ==
    /\ \A i, j \in 1..Len(results) : i < j => results[i].id < results[j].id
    /\ \A i \in 1..Len(results) : \E k \in 1..Len(returns) :
           returns[k].id = results[i].id /\ returns[k].status = results[i].status

\* C19: the result collection is append-only and keeps the submission order:
\* every step of the run (executions, summary, report) leaves the stored
\* results as they are and adds at most one at the end, so the i-th stored
\* result is the i-th result submitted
C19_ResultsAppendOnly == []StoredInOrder /\ [][KeepsAndAppends]_vars

C19_Witness ==
    /\ pc = "done" /\ summary.computed
    /\ Len(results) = 2
    /\ results[1].status # results[2].status

\* the counts of the summary, which selenium puts into its report
Tally == IF variant = "selenium" /\ summary.computed THEN summary.report ELSE summary

PassingStatus == IF variant = "behave" THEN "Passed" ELSE "PASS"

NonPassing(t) == IF variant = "behave" THEN t.failed + t.errors ELSE t.failed

SummaryAgrees ==
    summary.computed =>
        /\ Tally.total = Len(results)
        /\ Tally.passed = CountStatus(results, PassingStatus)
        /\ Tally.passed + NonPassing(Tally) = Tally.total
        /\ variant = "selenium" =>
               summary.logged = [total |-> Tally.total, passed |-> Tally.passed,
                                 failed |-> Tally.failed]

\* C20: the run summary is computed from the stored results: total is their
\* number, passed the number of those with the passing status, passed and the
\* non-passing counts add up to total, and computing it changes no result
C20_SummaryFromResults ==
    []SummaryAgrees /\ [][summary' # summary => results' = results]_vars

C20_Witness ==
    /\ summary.computed /\ variant = "behave"
    /\ Tally.total = 2 /\ Tally.passed = 1 /\ Tally.errors = 1


\* the run is past its initialization with a data source that is unreadable
\* or whose master table is missing or malformed
InitializationFailed == source # "ok" /\ pc # "new"

\* C21: if initialization fails (data source unreadable, master table missing
\* or malformed), no test case is executed: no browser session is acquired,
\* no keyword is invoked and no test result is recorded
C21_InitFailureRunsNothing ==
    InitializationFailed =>
        /\ idx = 0
        /\ session = NoSession /\ res = NoResources /\ refs = {}
        /\ invoked = <<>>
        /\ results = <<>> /\ returns = <<>>


\* execute_all_tests of a TestExecutor has run its test cases and returned
RunReturned ==
    /\ variant \in {"framework", "selenium"}
    /\ pc = "done" /\ idx > 0

AllPassed == \A k \in 1..Len(returns) : returns[k].ok

\* C22: TestExecutor.execute_all_tests returns True if and only if every
\* executed test case passed; a run with a failed test case returns False
C22_RunReturnsAllPassed ==
    RunReturned => (run_returned = "True" <=> AllPassed)


\* C23: each step's locator is the locator-row cell in the column of the
\* step's keyword cell, and its value the value-row cell in that column, also
\* when two columns carry the same field name or a header cell is empty: the
\* j-th step read for a screen has the locator and the value of the j-th
\* column with a keyword
C23_LocatorByColumn ==
    (variant \in PairVariants /\ ScreenEntered) =>
        LET grid == workbook[screen_name]
            cols == KeywordColumns(grid[FirstKeywordRow])
        IN  \A j \in 1..Len(steps) : j <= Len(cols) =>
                /\ Strip(steps[j].locator) = Strip(Cell(grid, FirstKeywordRow - 1, cols[j]))
                /\ Strip(steps[j].value) = Strip(Cell(grid, FirstKeywordRow + 1, cols[j]))


\* a screen has been resolved before: its steps were invoked earlier in this
\* test case, or (framework) it is served from the cache of the run
ResolvedBefore ==
    \/ \E i \in 1..Len(invoked) : invoked[i].screen = screen_name
    \/ variant = "framework" /\ \E k \in 1..(idx - 1) :
           \E p \in 1..Len(master[k]) : master[k][p] = screen_name

Interpreted == call # NoCall /\ kwInput # NoInput

\* C25: keyword lookup is insensitive to case and to surrounding whitespace:
\* a call with keyword k has the outcome (handler result or not-found) of the
\* call with the upper-cased, trimmed k and the same arguments, and
\* normalising a normalised name changes nothing
C25_LookupNormalised ==
    Interpreted =>
        LET n == Normal(kwInput.keyword) IN
        /\ call.out = Execute(variant, n, kwInput.ltype, kwInput.locator,
                              kwInput.value, kwInput.env)
        /\ Normal(n) = n
        /\ Upper(Strip(kwInput.keyword)) = n

C25_Witness ==
    /\ Interpreted
    /\ kwInput.keyword = RAW_Click_padded
    /\ call.out.kind = "return" /\ call.out.success


\* the run loop is between two test cases or through with them
BetweenTestCases == pc \in {"idle", "done"} /\ cfg.entry # "run_test_case"

\* C26: every test case the run loop hands to the executor contributes exactly
\* one result, whatever its outcome: the number of stored results equals the
\* number of test cases executed, and the k-th result is that of the k-th
\* test case
C26_OneResultPerTestCase ==
    BetweenTestCases =>
        /\ Len(results) = idx
        /\ \A k \in 1..Len(results) : results[k].id = k


\* a session resource that was opened and that nothing has tried to close
SessionLeftOpen == \E r \in AllResources : res[r] = "open"

\* C27: no browser session is open between test cases, so at most one is
\* open at any time and each test case starts on a fresh one: once the
\* executor has returned, no resource of the session is still open, and
\* in KeywordExecutor self.driver and DriverFactory._driver are None
C27_NoSessionBetweenTestCases ==
    (pc \in {"idle", "done"} /\ idx > 0) =>
        /\ ~SessionLeftOpen
        /\ variant = "behave" => refs = {}


\* C28: at most one diagnostic capture is requested per test-case execution,
\* whatever the outcome and the screenshot configuration
C28_AtMostOneCapture ==
    /\ shots <= 1
    /\ Len(captures) = shots


\* _run_test_case has returned from a flow that led to no invocation, with
\* its session acquired and its loop over the screens run to the end
EndedWithoutSteps ==
    /\ Finished /\ variant = "behave" /\ cfg.entry = "run_all_tests"
    /\ session.ok /\ exit = "loop_done"
    /\ invoked = <<>>

CountersAgree ==
    variant = "selenium" =>
        /\ counters.passed + counters.failed = Len(results)
        /\ counters.passed = CountStatus(results, "PASS")

\* a call of execute_test_case has returned in this step
CallReturned == returns' # returns

\* C30: in the selenium TestExecutor passed_tests + failed_tests equals the
\* number of stored results, passed_tests the number of those with status
\* PASS, and each call of execute_test_case adds one to exactly one counter
C30_CountersMatchResults ==
    /\ []CountersAgree
    /\ [][(variant = "selenium" /\ CallReturned) =>
             \/ /\ counters'.passed = counters.passed + 1
                /\ counters'.failed = counters.failed
             \/ /\ counters'.failed = counters.failed + 1
                /\ counters'.passed = counters.passed]_vars

C30_Witness ==
    /\ variant = "selenium"
    /\ counters.passed = 1 /\ counters.failed = 1
    /\ Len(results) = 2

====
